---- MODULE Spec2Model ----
(***************************************************************************)
(* Session / state / memory store of aiintime_agent                        *)
(* (services/session/redis_session.py, services/memory/redis_memory.py)    *)
(* over a RedisJSON backend.                                               *)
(*                                                                         *)
(* Strings that the code formats or parses (identifiers, backend keys,     *)
(* state keys, texts) are sequences of tokens, so that f-string            *)
(* formatting is concatenation and prefix tests are real prefix tests.     *)
(* Optional values are sets with at most one element ({} is None).         *)
(*                                                                         *)
(* Spec     : the session store, one caller at a time.                     *)
(* SpecMem  : the memory service, one caller at a time.                    *)
(* SpecConc : append_event coroutines interleaved at every backend call.   *)
(* SpecFault : the session store when a backend call may raise.            *)
(* SpecMemConc : add_session_to_memory coroutines interleaved likewise.    *)
(* SpecTenant : the session store with ':' and '*' inside identifiers.     *)
(***************************************************************************)
EXTENDS Integers, Sequences, FiniteSets, TLC

VARIABLES
    db,        \* the backend: key -> JSON document
    clock,     \* wall clock read by time.time(): one tick per create_session
    uuids,     \* number of ids drawn from uuid.uuid4()
    nevents,   \* number of Event objects built by callers so far
    held,      \* the Session object the caller holds ({} or {session})
    ret,       \* the last store operation and what it returned
    tasks,     \* the append_event coroutines in flight: where each one stands
    arrivals   \* the events whose JSON.ARRAPPEND reached the backend, in order

vars == <<db, clock, uuids, nevents, held, ret, tasks, arrivals>>

(***************************************************************************)
(* Bounds of the model                                                     *)
(***************************************************************************)
MaxWrites == 3   \* create_session and append_event calls in one run

(***************************************************************************)
(* Generic helpers                                                         *)
(***************************************************************************)
EmptyMap == [k \in {} |-> 0]

Some(opt) == CHOOSE v \in opt : TRUE

\* dict[k] = v
MapSet(m, k, v) == [x \in DOMAIN m \cup {k} |-> IF x = k THEN v ELSE m[x]]

\* str.startswith(prefix)
StartsWith(s, prefix) ==
    /\ Len(s) >= Len(prefix)
    /\ SubSeq(s, 1, Len(prefix)) = prefix

\* str.removeprefix(prefix)
RemovePrefix(s, prefix) ==
    IF StartsWith(s, prefix) THEN SubSeq(s, Len(prefix) + 1, Len(s)) ELSE s

RECURSIVE LStrip(_)
LStrip(s) == IF s /= <<>> /\ Head(s) = " " THEN LStrip(Tail(s)) ELSE s

RECURSIVE RStrip(_)
RStrip(s) ==
    IF s /= <<>> /\ s[Len(s)] = " " THEN RStrip(SubSeq(s, 1, Len(s) - 1)) ELSE s

\* str.strip()
Strip(s) == RStrip(LStrip(s))

(***************************************************************************)
(* State prefixes (google.adk.sessions.state.State) and backend keys       *)
(***************************************************************************)
APP_PREFIX  == <<"app", ":">>
USER_PREFIX == <<"user", ":">>

SessionKey(app_name, user_id, session_id) ==
    <<"session", ":">> \o app_name \o <<":">> \o user_id \o <<":">> \o session_id

AppStateKey(app_name) == <<"state", ":", "app", ":">> \o app_name

\* mutant: one user-scope document for the whole app
UserStateKeyPerApp(app_name, user_id) == <<"state", ":", "user", ":">> \o app_name

UserStateKey(app_name, user_id) ==
    <<"state", ":", "user", ":">> \o app_name \o <<":">> \o user_id

(***************************************************************************)
(* Backend primitives (redis.asyncio / RedisJSON), one call each.          *)
(* A write returns [ok, db]: ok is FALSE when Redis answers with an error  *)
(* (redis-py raises ResponseError) and the backend is then unchanged.      *)
(***************************************************************************)
Exists(d, key) == key \in DOMAIN d

\* JSON.GET key : {} when the key is absent
JsonGet(d, key) == IF key \in DOMAIN d THEN {d[key]} ELSE {}

\* JSON.SET key $ value
JsonSetRoot(d, key, value) ==
    [ok |-> TRUE,
     db |-> [k \in DOMAIN d \cup {key} |-> IF k = key THEN value ELSE d[k]]]

\* mutant: a document is made for the path when the key is absent
JsonSetStateUpsert(d, key, k, value) ==
    IF key \notin DOMAIN d
    THEN [ok |-> TRUE,
          db |-> [x \in DOMAIN d \cup {key} |->
                    IF x = key
                    THEN [id |-> <<>>, app_name |-> <<>>, user_id |-> <<>>,
                          state |-> MapSet(EmptyMap, k, value), events |-> <<>>,
                          last_update_time |-> 0]
                    ELSE d[x]]]
    ELSE [ok |-> TRUE,
          db |-> [d EXCEPT ![key].state = MapSet(@, k, value)]]

\* mutant: the delta is added to the stored number (JSON.NUMINCRBY)
JsonIncrState(d, key, k, value) ==
    IF key \notin DOMAIN d
    THEN [ok |-> FALSE, db |-> d]
    ELSE [ok |-> TRUE,
          db |-> [d EXCEPT ![key].state =
                    MapSet(@, k, IF k \in DOMAIN @ THEN @[k] + value ELSE value)]]

\* JSON.SET key $.state.<k> value : an error when the key is absent
\* ("new objects must be created at the root")
JsonSetState(d, key, k, value) ==
    IF key \notin DOMAIN d
    THEN [ok |-> FALSE, db |-> d]
    ELSE [ok |-> TRUE,
          db |-> [d EXCEPT ![key].state = MapSet(@, k, value)]]

\* JSON.SET key $.last_update_time value
JsonSetLastUpdate(d, key, value) ==
    IF key \notin DOMAIN d
    THEN [ok |-> FALSE, db |-> d]
    ELSE [ok |-> TRUE, db |-> [d EXCEPT ![key].last_update_time = value]]

\* mutant: the value is inserted at the head of the array
JsonArrInsertFirst(d, key, value) ==
    IF key \notin DOMAIN d
    THEN [ok |-> FALSE, db |-> d]
    ELSE [ok |-> TRUE, db |-> [d EXCEPT ![key].events = <<value>> \o @]]

\* JSON.ARRAPPEND key $.events value
JsonArrAppend(d, key, value) ==
    IF key \notin DOMAIN d
    THEN [ok |-> FALSE, db |-> d]
    ELSE [ok |-> TRUE, db |-> [d EXCEPT ![key].events = Append(@, value)]]

\* DEL key : no error when the key is absent
Del(d, key) == [k \in DOMAIN d \ {key} |-> d[k]]

(***************************************************************************)
(* Session objects and state merging                                       *)
(***************************************************************************)
Session(app_name, user_id, id, state, events, last_update_time) ==
    [app_name |-> app_name, user_id |-> user_id, id |-> id,
     state |-> state, events |-> events, last_update_time |-> last_update_time]

\* _get_state: the "state" member of a scope document, {} when absent
GetState(d, key) == IF key \in DOMAIN d THEN d[key].state ELSE EmptyMap

\* for key, value in scope.items(): state[prefix + key] = value
MergeScope(state, prefix, scope) ==
    [x \in DOMAIN state \cup {prefix \o k : k \in DOMAIN scope} |->
        IF \E k \in DOMAIN scope : x = prefix \o k
        THEN scope[CHOOSE k \in DOMAIN scope : x = prefix \o k]
        ELSE state[x]]

\* _merge_state
MergeState(d, app_name, user_id, session) ==
    [session EXCEPT !.state =
        MergeScope(MergeScope(@, APP_PREFIX, GetState(d, AppStateKey(app_name))),
                   USER_PREFIX, GetState(d, UserStateKey(app_name, user_id)))]

(***************************************************************************)
(* Events (google.adk Event) and their stored form                         *)
(***************************************************************************)
\* actions.state_delta is a dict: a sequence of <<key, value>> in insertion order
Event(id, author, timestamp, state_delta, content) ==
    [id |-> id, author |-> author, timestamp |-> timestamp,
     actions |-> [state_delta |-> state_delta], content |-> content]

\* event.model_dump(mode='json')
EventDump(event) ==
    [id |-> event.id, author |-> event.author, timestamp |-> event.timestamp,
     actions |-> [state_delta |-> event.actions.state_delta],
     content |-> event.content]

\* Event(**e_dict)
EventLoad(e_dict) ==
    Event(e_dict.id, e_dict.author, e_dict.timestamp, e_dict.actions.state_delta, e_dict.content)

LoadEvents(dicts) == [i \in 1..Len(dicts) |-> EventLoad(dicts[i])]

(***************************************************************************)
(* create_session                                                          *)
(***************************************************************************)
\* str(uuid.uuid4()): the n-th id handed out, distinct from every other id
Uuid(n) == <<"g", ToString(n)>>

\* session_id.strip() if session_id and session_id.strip() else None
SuppliedId(session_id) ==
    IF session_id /= {} /\ Strip(Some(session_id)) /= <<>>
    THEN {Strip(Some(session_id))}
    ELSE {}

\* state or {}
StateOrEmpty(state) == IF state /= {} /\ DOMAIN Some(state) /= {} THEN Some(state) ELSE EmptyMap

\* mutant: the document is written without the caller's state
SessionDataWithoutState(app_name, user_id, id, state, now) ==
    [id |-> id, app_name |-> app_name, user_id |-> user_id,
     state |-> EmptyMap, events |-> <<>>, last_update_time |-> now]

SessionData(app_name, user_id, id, state, now) ==
    [id |-> id, app_name |-> app_name, user_id |-> user_id,
     state |-> StateOrEmpty(state), events |-> <<>>, last_update_time |-> now]

\* the backend write of create_session
CreateSessionDb(d, app_name, user_id, id, state, now) ==
    JsonSetRoot(d, SessionKey(app_name, user_id, id),
                SessionData(app_name, user_id, id, state, now)).db

\* the session create_session returns
CreatedSession(d, app_name, user_id, id, state, now) ==
    MergeState(d, app_name, user_id,
               Session(app_name, user_id, id, StateOrEmpty(state), <<>>, now))

(***************************************************************************)
(* get_session                                                             *)
(***************************************************************************)
\* truthiness of an Optional number: None and 0 are falsy
Truthy(opt) == opt /= {} /\ Some(opt) /= 0

\* mutant: the first n events are kept (events[:n])
FirstN(events, n) ==
    IF n >= Len(events) THEN events ELSE SubSeq(events, 1, n)

\* events[-n:] for n > 0
LastN(events, n) ==
    IF n >= Len(events) THEN events
    ELSE SubSeq(events, Len(events) - n + 1, Len(events))

\* [e for e in events if e.timestamp >= t]
RECURSIVE AfterTimestamp(_, _)
AfterTimestamp(events, t) ==
    IF events = <<>> THEN <<>>
    ELSE IF Head(events).timestamp >= t
         THEN <<Head(events)>> \o AfterTimestamp(Tail(events), t)
         ELSE AfterTimestamp(Tail(events), t)

\* if config.num_recent_events: events = events[-config.num_recent_events:]
RecentEvents(events, num_recent_events) ==
    IF Truthy(num_recent_events) THEN LastN(events, Some(num_recent_events)) ELSE events

\* if config.after_timestamp: events = [e for e in events if e.timestamp >= ...]
EventsAfter(events, after_timestamp) ==
    IF Truthy(after_timestamp) THEN AfterTimestamp(events, Some(after_timestamp)) ELSE events

\* the config filtering of get_session; config is {} or {GetSessionConfig}
ApplyConfig(events, config) ==
    IF config = {} THEN events
    ELSE LET c  == Some(config)
             e1 == IF Truthy(c.num_recent_events)
                   THEN LastN(events, Some(c.num_recent_events))
                   ELSE events
         IN  IF Truthy(c.after_timestamp)
             THEN AfterTimestamp(e1, Some(c.after_timestamp))
             ELSE e1

\* what get_session returns: {} (None) or {session}
GetSessionResult(d, app_name, user_id, session_id, config) ==
    LET doc == JsonGet(d, SessionKey(app_name, user_id, session_id))
    IN  IF doc = {} THEN {}
        ELSE {MergeState(d, app_name, user_id,
                  Session(Some(doc).app_name, Some(doc).user_id, Some(doc).id,
                          Some(doc).state,
                          ApplyConfig(LoadEvents(Some(doc).events), config),
                          Some(doc).last_update_time))}

(***************************************************************************)
(* list_sessions                                                           *)
(***************************************************************************)
\* Redis glob matching of KEYS: "*" matches any run of characters
RECURSIVE GlobMatch(_, _)
GlobMatch(pattern, key) ==
    IF pattern = <<>> THEN key = <<>>
    ELSE IF Head(pattern) = "*"
         THEN \/ GlobMatch(Tail(pattern), key)
              \/ key /= <<>> /\ GlobMatch(pattern, Tail(key))
         ELSE /\ key /= <<>>
              /\ Head(key) = Head(pattern)
              /\ GlobMatch(Tail(pattern), Tail(key))

\* mutant: KEYS returns every key of the kind the pattern starts with
KeysOfKind(d, pattern) == {k \in DOMAIN d : Head(k) = Head(pattern)}

\* KEYS pattern
Keys(d, pattern) == {k \in DOMAIN d : GlobMatch(pattern, k)}

\* the session list_sessions builds from the document at one key
ListedSession(d, app_name, user_id, key) ==
    MergeState(d, app_name, user_id,
        Session(d[key].app_name, d[key].user_id, d[key].id, d[key].state,
                <<>>, d[key].last_update_time))

\* the sessions list_sessions collects, one per key KEYS returns (different
\* keys hold different sessions)
ListedSessions(d, app_name, user_id) ==
    {ListedSession(d, app_name, user_id, key) :
        key \in Keys(d, SessionKey(app_name, user_id, <<"*">>))}

\* the orders in which a set may be listed: KEYS returns keys in no given order
RECURSIVE Orders(_)
Orders(set) ==
    IF set = {} THEN {<<>>}
    ELSE UNION {{<<x>> \o rest : rest \in Orders(set \ {x})} : x \in set}

\* the lists list_sessions may return
ListSessionsResults(d, app_name, user_id) ==
    Orders(ListedSessions(d, app_name, user_id))

(***************************************************************************)
(* append_event                                                            *)
(***************************************************************************)
\* mutant: the app: branch is missing, an app: delta is written as session state
RouteDeltaNoAppBranch(d, app_name, user_id, key, delta_key, value) ==
    IF StartsWith(delta_key, USER_PREFIX)
    THEN LET user_state_key == UserStateKey(app_name, user_id)
             d1 == IF ~Exists(d, user_state_key)
                   THEN JsonSetRoot(d, user_state_key, [state |-> EmptyMap]).db
                   ELSE d
         IN  JsonSetState(d1, user_state_key, RemovePrefix(delta_key, USER_PREFIX), value)
    ELSE JsonSetState(d, key, delta_key, value)

\* mutant: an unprefixed delta is written into every session document
RouteDeltaEverySession(d, app_name, user_id, key, delta_key, value) ==
    IF StartsWith(delta_key, APP_PREFIX) \/ StartsWith(delta_key, USER_PREFIX)
    THEN RouteDeltaNoAppBranch(d, app_name, user_id, key,
                               IF StartsWith(delta_key, APP_PREFIX)
                               THEN USER_PREFIX \o RemovePrefix(delta_key, APP_PREFIX)
                               ELSE delta_key, value)
    ELSE [ok |-> key \in DOMAIN d,
          db |-> [k \in DOMAIN d |->
                    IF Head(k) = "session" /\ key \in DOMAIN d
                    THEN [d[k] EXCEPT !.state = MapSet(@, delta_key, value)]
                    ELSE d[k]]]

\* one state delta of append_event: the backend calls of one loop iteration
RouteDelta(d, app_name, user_id, key, delta_key, value) ==
    IF StartsWith(delta_key, APP_PREFIX)
    THEN LET app_key == AppStateKey(app_name)
             d1 == IF ~Exists(d, app_key)
                   THEN JsonSetRoot(d, app_key, [state |-> EmptyMap]).db
                   ELSE d
         IN  JsonSetState(d1, app_key, RemovePrefix(delta_key, APP_PREFIX), value)
    ELSE IF StartsWith(delta_key, USER_PREFIX)
    THEN LET user_state_key == UserStateKey(app_name, user_id)
             d1 == IF ~Exists(d, user_state_key)
                   THEN JsonSetRoot(d, user_state_key, [state |-> EmptyMap]).db
                   ELSE d
         IN  JsonSetState(d1, user_state_key, RemovePrefix(delta_key, USER_PREFIX), value)
    ELSE JsonSetState(d, key, delta_key, value)

\* the loop over event.actions.state_delta.items(): [ok, db, state], where
\* state is the in-memory session.state; an error ends the loop
RECURSIVE ApplyDeltas(_, _, _, _, _, _)
ApplyDeltas(d, app_name, user_id, key, state, deltas) ==
    IF deltas = <<>> THEN [ok |-> TRUE, db |-> d, state |-> state]
    ELSE LET r == RouteDelta(d, app_name, user_id, key, Head(deltas)[1], Head(deltas)[2])
         IN  IF ~r.ok THEN [ok |-> FALSE, db |-> r.db, state |-> state]
             ELSE ApplyDeltas(r.db, app_name, user_id, key,
                              MapSet(state, Head(deltas)[1], Head(deltas)[2]),
                              Tail(deltas))

\* the whole of append_event: [ok, db, session]; ok is FALSE when a backend
\* call raised, and the calls after it were not made
AppendEventResult(d, session, event) ==
    LET key == SessionKey(session.app_name, session.user_id, session.id)
        s1  == [session EXCEPT !.last_update_time = event.timestamp,
                               !.events = Append(@, event)]
        r1  == ApplyDeltas(d, session.app_name, session.user_id, key,
                           s1.state, event.actions.state_delta)
        s2  == [s1 EXCEPT !.state = r1.state]
        r2  == JsonSetLastUpdate(r1.db, key, event.timestamp)
        r3  == JsonArrAppend(r2.db, key, EventDump(event))
    IN  IF ~r1.ok THEN [ok |-> FALSE, db |-> r1.db, session |-> s2]
        ELSE IF ~r2.ok THEN [ok |-> FALSE, db |-> r2.db, session |-> s2]
        ELSE [ok |-> r3.ok, db |-> r3.db, session |-> s2]

(***************************************************************************)
(* Inputs the callers draw from                                            *)
(***************************************************************************)
Apps  == {<<"a">>}
Users == {<<"u">>, <<"v">>}

A == <<"a">>
U == <<"u">>
V == <<"v">>
S == <<"s">>

\* every id a session may be stored under
SessionIds == {<<"s">>} \cup {Uuid(n) : n \in 1..MaxWrites}

X     == <<"x">>
AppX  == APP_PREFIX \o X
UserX == USER_PREFIX \o X

\* arguments of create_session: the session id is None, "s", " s " or " ",
\* the state is None, {}, {"x": 1} or {"app:x": 2}
CreateInput(app_name, user_id, state, session_id) ==
    [app_name |-> app_name, user_id |-> user_id, state |-> state,
     session_id |-> session_id]

CreateInputs ==
    {CreateInput(A, U, {}, {}),
     CreateInput(A, U, {X :> 1}, {S}),
     CreateInput(A, U, {AppX :> 2}, {<<" ", "s", " ">>}),
     CreateInput(A, V, {EmptyMap}, {S}),
     CreateInput(A, V, {X :> 1}, {<<" ">>})}

\* the events callers build: (timestamp, state_delta)
EventInput(timestamp, state_delta) ==
    [timestamp |-> timestamp, state_delta |-> state_delta]

EventInputs ==
    {EventInput(1, <<>>),
     EventInput(2, << <<X, 2>> >>),
     EventInput(1, << <<AppX, 1>> >>),
     EventInput(2, << <<AppX, 2>> >>),
     EventInput(1, << <<UserX, 1>> >>)}

\* config arguments of get_session: None or GetSessionConfig(n, t)
GetSessionConfig(num_recent_events, after_timestamp) ==
    [num_recent_events |-> num_recent_events, after_timestamp |-> after_timestamp]

ConfigInputs ==
    {{}, {GetSessionConfig({0}, {})}, {GetSessionConfig({1}, {2})}}

NoContent == {}

\* the record of a completed operation: ok is FALSE when it raised
Ret(op, ok, val) == [op |-> op, ok |-> ok, val |-> val]

(***************************************************************************)
(* The store, one caller at a time: every operation runs to completion     *)
(***************************************************************************)
Init ==
    /\ db = EmptyMap
    /\ clock = 0
    /\ uuids = 0
    /\ nevents = 0
    /\ held = {}
    /\ ret = Ret("init", TRUE, {})
    /\ tasks = <<>>
    /\ arrivals = <<>>

\* create_session(app_name, user_id, state, session_id)
CreateSessionOf(app_name, user_id, state, session_id) ==
    LET supplied == SuppliedId(session_id)
        now == clock + 1
        id == IF supplied /= {} THEN Some(supplied) ELSE Uuid(uuids + 1)
        d  == CreateSessionDb(db, app_name, user_id, id, state, now)
    IN  /\ clock + nevents < MaxWrites
        /\ db' = d
        /\ clock' = now
        /\ uuids' = IF supplied = {} THEN uuids + 1 ELSE uuids
        /\ held' = {CreatedSession(d, app_name, user_id, id, state, now)}
        /\ ret' = Ret("create", TRUE, held')
        /\ UNCHANGED <<nevents, tasks, arrivals>>

CreateSession ==
    \E in \in CreateInputs :
        CreateSessionOf(in.app_name, in.user_id, in.state, in.session_id)

\* get_session(app_name, user_id, session_id, config); the caller keeps the
\* session it is given
GetSessionOf(app_name, user_id, session_id, config) ==
    LET r == GetSessionResult(db, app_name, user_id, session_id, config)
    IN  /\ ret' = Ret("get", TRUE, r)
        /\ held' = IF r = {} THEN held ELSE r
        /\ UNCHANGED <<db, clock, uuids, nevents, tasks, arrivals>>

GetSession ==
    \E app_name \in Apps, user_id \in Users, session_id \in SessionIds,
       config \in ConfigInputs :
        GetSessionOf(app_name, user_id, session_id, config)

\* list_sessions(app_name, user_id)
ListSessionsOf(app_name, user_id) ==
    \E r \in ListSessionsResults(db, app_name, user_id) :
        /\ ret' = Ret("list", TRUE, r)
        /\ UNCHANGED <<db, clock, uuids, nevents, held, tasks, arrivals>>

ListSessions ==
    \E app_name \in Apps, user_id \in Users : ListSessionsOf(app_name, user_id)

\* mutant: deleting an absent session raises
DeleteSessionStrict(app_name, user_id, session_id) ==
    /\ db' = Del(db, SessionKey(app_name, user_id, session_id))
    /\ ret' = Ret("delete", SessionKey(app_name, user_id, session_id) \in DOMAIN db, {})
    /\ UNCHANGED <<clock, uuids, nevents, held, tasks, arrivals>>

\* delete_session(app_name, user_id, session_id)
DeleteSessionOf(app_name, user_id, session_id) ==
    /\ db' = Del(db, SessionKey(app_name, user_id, session_id))
    /\ ret' = Ret("delete", TRUE, {})
    /\ UNCHANGED <<clock, uuids, nevents, held, tasks, arrivals>>

DeleteSession ==
    \E app_name \in Apps, user_id \in Users, session_id \in SessionIds :
        DeleteSessionOf(app_name, user_id, session_id)

\* append_event(session, event) on the session the caller holds
AppendEventOf(session, event) ==
    LET r == AppendEventResult(db, session, event)
    IN  /\ clock + nevents < MaxWrites
        /\ db' = r.db
        /\ held' = {r.session}
        /\ nevents' = nevents + 1
        /\ ret' = Ret("append", r.ok, IF r.ok THEN {event} ELSE {})
        /\ UNCHANGED <<clock, uuids, tasks, arrivals>>

AppendEvent ==
    /\ held /= {}
    /\ \E in \in EventInputs :
        AppendEventOf(Some(held),
                      Event(nevents + 1, "user", in.timestamp, in.state_delta, NoContent))

Next ==
    \/ CreateSession
    \/ GetSession
    \/ ListSessions
    \/ DeleteSession
    \/ AppendEvent

Spec == Init /\ [][Next]_vars

(***************************************************************************)
(* Memory service (redis_memory.py)                                        *)
(***************************************************************************)
\* a text is a sequence of characters; the characters the model writes
LowerLetters == {"a", "b"}
UpperLetters == {"A", "B"}

\* [A-Za-z]
IsAlpha(c) == c \in LowerLetters \cup UpperLetters

\* str.lower() on one character
LowerChar(c) == IF c = "A" THEN "a" ELSE IF c = "B" THEN "b" ELSE c

\* word.lower()
Lower(word) == [i \in 1..Len(word) |-> LowerChar(word[i])]

\* re.findall(r"[A-Za-z]+", text): the maximal letter runs, left to right;
\* run is the run being read
RECURSIVE FindAll(_, _)
FindAll(text, run) ==
    IF text = <<>> THEN (IF run = <<>> THEN <<>> ELSE <<run>>)
    ELSE IF IsAlpha(Head(text)) THEN FindAll(Tail(text), Append(run, Head(text)))
    ELSE (IF run = <<>> THEN <<>> ELSE <<run>>) \o FindAll(Tail(text), <<>>)

\* the words as they are written, case kept
ExtractWords(text) ==
    LET words == FindAll(text, <<>>)
    IN  {words[i] : i \in 1..Len(words)}

\* _extract_words_lower
ExtractWordsLower(text) ==
    LET words == FindAll(text, <<>>)
    IN  {Lower(words[i]) : i \in 1..Len(words)}

\* _user_key
UserKey(app_name, user_id) == <<"memory", ":">> \o app_name \o <<":">> \o user_id

\* types.Part: text is None for a part that carries no text
Part(text) == [text |-> text]

\* types.Content
Content(role, parts) == [role |-> role, parts |-> parts]

\* truth value of an Optional[str]: None and "" are false
TruthyText(text) == text /= {} /\ Some(text) /= <<>>

\* mutant: the value is appended to the array already stored at the member
JsonExtendMember(d, key, member, value) ==
    IF key \in DOMAIN d
    THEN [ok |-> TRUE,
          db |-> MapSet(d, key, MapSet(d[key], member,
                     IF member \in DOMAIN d[key] THEN d[key][member] \o value ELSE value))]
    ELSE [ok |-> FALSE, db |-> d]

\* JSON.SET key $.member value: an error when the document is absent
JsonSetMember(d, key, member, value) ==
    IF key \in DOMAIN d
    THEN [ok |-> TRUE, db |-> MapSet(d, key, MapSet(d[key], member, value))]
    ELSE [ok |-> FALSE, db |-> d]

\* event.content and event.content.parts
HasParts(content) == content /= {} /\ Some(content).parts /= <<>>

\* the events add_session_to_memory keeps, dumped
RECURSIVE EventsToStore(_)
EventsToStore(events) ==
    IF events = <<>> THEN <<>>
    ELSE (IF HasParts(Head(events).content) THEN <<EventDump(Head(events))>> ELSE <<>>)
         \o EventsToStore(Tail(events))

\* add_session_to_memory(session): the store afterwards
AddSessionToMemoryDb(d, session) ==
    LET user_key == UserKey(session.app_name, session.user_id)
        events_to_store == EventsToStore(session.events)
        d1 == IF Exists(d, user_key) THEN d
              ELSE JsonSetRoot(d, user_key, EmptyMap).db
    IN  IF events_to_store = <<>> THEN d
        ELSE JsonSetMember(d1, user_key, session.id, events_to_store).db

\* " ".join(texts)
RECURSIVE Join(_)
Join(texts) ==
    IF texts = <<>> THEN <<>>
    ELSE IF Len(texts) = 1 THEN Head(texts)
    ELSE Head(texts) \o <<" ">> \o Join(Tail(texts))

\* [part.get("text") for part in content["parts"] if part.get("text")]
RECURSIVE Texts(_)
Texts(parts) ==
    IF parts = <<>> THEN <<>>
    ELSE (IF TruthyText(Head(parts).text) THEN <<Some(Head(parts).text)>> ELSE <<>>)
         \o Texts(Tail(parts))

\* _utils.format_timestamp: the timestamp as an ISO 8601 string
FormatTimestamp(timestamp) == <<"iso", ToString(timestamp)>>

\* MemoryEntry(content=content_obj, author=..., timestamp=...)
MemoryEntry(event_dict) ==
    LET content == Some(event_dict.content)
        texts == Texts(content.parts)
    IN  [content |-> Content(content.role,
                             [i \in 1..Len(texts) |-> Part({texts[i]})]),
         author |-> event_dict.author,
         timestamp |-> FormatTimestamp(event_dict.timestamp)]

\* the body of the loop over one stored event: the entries it adds
EventMemories(event_dict, words_in_query) ==
    IF ~HasParts(event_dict.content) THEN <<>>
    ELSE LET texts == Texts(Some(event_dict.content).parts)
             words_in_event == ExtractWordsLower(Join(texts))
         IN  IF texts = <<>> THEN <<>>
             ELSE IF words_in_event = {} THEN <<>>
             ELSE IF \E query_word \in words_in_query : query_word \in words_in_event
                  THEN <<MemoryEntry(event_dict)>>
                  ELSE <<>>

RECURSIVE SessionMemories(_, _)
SessionMemories(events, words_in_query) ==
    IF events = <<>> THEN <<>>
    ELSE EventMemories(Head(events), words_in_query)
         \o SessionMemories(Tail(events), words_in_query)

\* the loop over session_data.items(), the sessions taken in the given order
RECURSIVE CollectMemories(_, _, _)
CollectMemories(session_data, order, words_in_query) ==
    IF order = <<>> THEN <<>>
    ELSE SessionMemories(session_data[Head(order)], words_in_query)
         \o CollectMemories(session_data, Tail(order), words_in_query)

\* search_memory(app_name, user_id, query): response.memories, one result for
\* each order in which the document may list its sessions
SearchMemoryResults(d, app_name, user_id, query) ==
    LET session_data == JsonGet(d, UserKey(app_name, user_id))
    IN  IF session_data = {} \/ DOMAIN Some(session_data) = {} THEN {<<>>}
        ELSE {CollectMemories(Some(session_data), order, ExtractWordsLower(query)) :
                 order \in Orders(DOMAIN Some(session_data))}

\* the texts of the parts callers build: "ab", "Ab1ba", "a", "B", "1 " and ""
TextAb    == <<"a", "b">>
TextAb1ba == <<"A", "b", "1", "b", "a">>
TextLowA  == <<"a">>
TextUpB   == <<"B">>
TextNoWord == <<"1", " ">>

UserRole == {<<"user">>}

\* one text part "ab"
EventAb == Event(1, "user", 1, <<>>, {Content(UserRole, <<Part({TextAb})>>)})
\* text parts "a" and "B" around a part without text
EventAThenB ==
    Event(2, "model", 2, <<>>,
          {Content({<<"model">>}, <<Part({TextLowA}), Part({}), Part({TextUpB})>>)})
\* one text part "Ab1ba"
EventAb1ba == Event(3, "user", 3, <<>>, {Content(UserRole, <<Part({TextAb1ba})>>)})
\* a text without letters
EventNoWord == Event(4, "user", 4, <<>>, {Content(UserRole, <<Part({TextNoWord})>>)})
\* parts, none with text: a part without text and a part with the text ""
EventNoText == Event(5, "model", 5, <<>>, {Content({}, <<Part({}), Part({<<>>})>>)})
\* no content, and content without parts
EventNoContent == Event(6, "user", 6, <<>>, NoContent)
EventNoParts == Event(7, "user", 7, <<>>, {Content(UserRole, <<>>)})

MemorySession(user_id, session_id, events) ==
    Session(A, user_id, session_id, EmptyMap, events, 1)

\* the sessions handed to add_session_to_memory
MemorySessions ==
    {MemorySession(U, S, <<EventAb, EventNoContent, EventAThenB>>),
     MemorySession(U, S, <<EventAb1ba, EventNoText>>),
     MemorySession(U, Uuid(1), <<EventNoWord, EventNoParts, EventAb>>),
     MemorySession(U, Uuid(1), <<EventNoContent, EventNoParts>>),
     MemorySession(V, S, <<EventAb>>),
     MemorySession(V, S, <<EventNoWord, EventAThenB>>),
     MemorySession(V, Uuid(1), <<EventAThenB, EventAb1ba>>)}

\* the queries: "", "1 ", "AB", "a", "ba b", "b1a"
Queries ==
    {<<>>, <<"1", " ">>, <<"A", "B">>, <<"a">>,
     <<"b", "a", " ", "b">>, <<"b", "1", "a">>}

\* add_session_to_memory(session)
AddSessionToMemoryOf(session) ==
    /\ db' = AddSessionToMemoryDb(db, session)
    /\ ret' = Ret("add", TRUE, {})
    /\ UNCHANGED <<clock, uuids, nevents, held, tasks, arrivals>>

AddSessionToMemory == \E session \in MemorySessions : AddSessionToMemoryOf(session)

\* search_memory(app_name, user_id, query)
SearchMemoryOf(app_name, user_id, query) ==
    /\ \E memories \in SearchMemoryResults(db, app_name, user_id, query) :
           ret' = Ret("search", TRUE, memories)
    /\ UNCHANGED <<db, clock, uuids, nevents, held, tasks, arrivals>>

SearchMemory ==
    \E app_name \in Apps, user_id \in Users, query \in Queries :
        SearchMemoryOf(app_name, user_id, query)

NextMem ==
    \/ AddSessionToMemory
    \/ SearchMemory

\* the memory service alone, one caller at a time
SpecMem == Init /\ [][NextMem]_vars

(***************************************************************************)
(* append_event calls running concurrently: one step per backend call      *)
(***************************************************************************)
\* the number of append_event coroutines in flight
NumTasks == 2

Tasks == 1..NumTasks

Y     == <<"y">>
AppY  == APP_PREFIX \o Y
UserY == USER_PREFIX \o Y

\* the state_delta of the events appended concurrently
ConcDeltas ==
    {<<>>,
     << <<AppX, 1>> >>,
     << <<AppY, 2>> >>,
     << <<UserX, 1>> >>,
     << <<X, 1>>, <<UserY, 2>> >>}

\* a coroutine of append_event(session, event): pc is the statement it is
\* about to run, deltas the items of state_delta still to handle
Task(event) ==
    [pc |-> "start", event |-> event, deltas |-> event.actions.state_delta]

\* the session create_session("a", "u", None, "s") stored at time 1
ConcSession == CreatedSession(EmptyMap, A, U, S, {}, 1)

ConcKey == SessionKey(A, U, S)

\* the scope document a prefixed delta key goes to
ScopeDocKey(session, delta_key) ==
    IF StartsWith(delta_key, APP_PREFIX)
    THEN AppStateKey(session.app_name)
    ELSE UserStateKey(session.app_name, session.user_id)

\* delta_key.removeprefix(prefix)
CleanKey(delta_key) ==
    IF StartsWith(delta_key, APP_PREFIX)
    THEN RemovePrefix(delta_key, APP_PREFIX)
    ELSE RemovePrefix(delta_key, USER_PREFIX)

HasScopePrefix(delta_key) ==
    StartsWith(delta_key, APP_PREFIX) \/ StartsWith(delta_key, USER_PREFIX)

\* one stored session, with no event or one, and NumTasks calls of
\* append_event on it about to start
InitConc ==
    \E prior \in {0, 1}, deltas \in [Tasks -> ConcDeltas] :
        LET d0 == CreateSessionDb(EmptyMap, A, U, S, {}, 1)
            r  == AppendEventResult(d0, ConcSession, Event(1, "user", 1, <<>>, NoContent))
        IN  /\ db = IF prior = 1 THEN r.db ELSE d0
            /\ held = IF prior = 1 THEN {r.session} ELSE {ConcSession}
            /\ clock = 1
            /\ uuids = 0
            /\ nevents = prior + NumTasks
            /\ ret = Ret("init", TRUE, {})
            /\ tasks = [t \in Tasks |->
                           Task(Event(prior + t, "user", prior + t, deltas[t], NoContent))]
            /\ arrivals = <<>>

\* session.last_update_time = event.timestamp; session.events.append(event)
StartStep(t) ==
    /\ tasks[t].pc = "start"
    /\ held' = {[Some(held) EXCEPT !.last_update_time = tasks[t].event.timestamp,
                                   !.events = Append(@, tasks[t].event)]}
    /\ tasks' = [tasks EXCEPT ![t].pc = "loop"]
    /\ UNCHANGED <<db, clock, uuids, nevents, ret, arrivals>>

\* if not await self._redis.exists(scope key)
ExistsStep(t) ==
    /\ tasks[t].pc = "loop"
    /\ tasks[t].deltas /= <<>>
    /\ HasScopePrefix(Head(tasks[t].deltas)[1])
    /\ tasks' = [tasks EXCEPT ![t].pc =
                    IF Exists(db, ScopeDocKey(Some(held), Head(tasks[t].deltas)[1]))
                    THEN "set" ELSE "init"]
    /\ UNCHANGED <<db, clock, uuids, nevents, held, ret, arrivals>>

\* await self._redis.json().set(scope key, "$", {"state": {}})
InitStep(t) ==
    /\ tasks[t].pc = "init"
    /\ db' = JsonSetRoot(db, ScopeDocKey(Some(held), Head(tasks[t].deltas)[1]),
                         [state |-> EmptyMap]).db
    /\ tasks' = [tasks EXCEPT ![t].pc = "set"]
    /\ UNCHANGED <<clock, uuids, nevents, held, ret, arrivals>>

\* what follows a JSON.SET of one delta: session.state[delta_key] = value and
\* the next item of the loop, or the error raised
AfterSet(t, r) ==
    LET delta == Head(tasks[t].deltas)
    IN  /\ db' = r.db
        /\ IF r.ok
           THEN /\ held' = {[Some(held) EXCEPT !.state = MapSet(@, delta[1], delta[2])]}
                /\ tasks' = [tasks EXCEPT ![t].pc = "loop", ![t].deltas = Tail(@)]
                /\ UNCHANGED ret
           ELSE /\ tasks' = [tasks EXCEPT ![t].pc = "failed"]
                /\ ret' = Ret("append", FALSE, {})
                /\ UNCHANGED held
        /\ UNCHANGED <<clock, uuids, nevents, arrivals>>

\* await self._redis.json().set(scope key, f"$.state.{clean_key}", value)
SetStep(t) ==
    /\ tasks[t].pc = "set"
    /\ AfterSet(t, JsonSetState(db, ScopeDocKey(Some(held), Head(tasks[t].deltas)[1]),
                                CleanKey(Head(tasks[t].deltas)[1]),
                                Head(tasks[t].deltas)[2]))

\* await self._redis.json().set(key, f"$.state.{delta_key}", value)
SessionDeltaStep(t) ==
    /\ tasks[t].pc = "loop"
    /\ tasks[t].deltas /= <<>>
    /\ ~HasScopePrefix(Head(tasks[t].deltas)[1])
    /\ AfterSet(t, JsonSetState(db, ConcKey, Head(tasks[t].deltas)[1],
                                Head(tasks[t].deltas)[2]))

\* await self._redis.json().set(key, "$.last_update_time", event.timestamp)
LastUpdateStep(t) ==
    /\ tasks[t].pc = "loop"
    /\ tasks[t].deltas = <<>>
    /\ LET r == JsonSetLastUpdate(db, ConcKey, tasks[t].event.timestamp)
       IN  /\ db' = r.db
           /\ tasks' = [tasks EXCEPT ![t].pc = IF r.ok THEN "arr" ELSE "failed"]
           /\ ret' = IF r.ok THEN ret ELSE Ret("append", FALSE, {})
    /\ UNCHANGED <<clock, uuids, nevents, held, arrivals>>

\* mutant: the array is rewritten from the list the session object holds
ArrAppendStepFromMemory(t) ==
    /\ tasks[t].pc = "arr"
    /\ db' = [db EXCEPT ![ConcKey].events =
                 [i \in 1..Len(Some(held).events) |-> EventDump(Some(held).events[i])]]
    /\ arrivals' = Append(arrivals, tasks[t].event)
    /\ tasks' = [tasks EXCEPT ![t].pc = "done"]
    /\ ret' = Ret("append", TRUE, {tasks[t].event})
    /\ UNCHANGED <<clock, uuids, nevents, held>>

\* await self._redis.json().arrappend(key, "$.events", event_dict); return event
ArrAppendStep(t) ==
    /\ tasks[t].pc = "arr"
    /\ LET r == JsonArrAppend(db, ConcKey, EventDump(tasks[t].event))
       IN  /\ db' = r.db
           /\ arrivals' = IF r.ok THEN Append(arrivals, tasks[t].event) ELSE arrivals
           /\ tasks' = [tasks EXCEPT ![t].pc = IF r.ok THEN "done" ELSE "failed"]
           /\ ret' = Ret("append", r.ok, IF r.ok THEN {tasks[t].event} ELSE {})
    /\ UNCHANGED <<clock, uuids, nevents, held>>

NextConc ==
    \E t \in Tasks :
        \/ StartStep(t)
        \/ ExistsStep(t)
        \/ InitStep(t)
        \/ SetStep(t)
        \/ SessionDeltaStep(t)
        \/ LastUpdateStep(t)
        \/ ArrAppendStep(t)

\* the event loop runs any coroutine that is ready, one backend call at a time
SpecConc == InitConc /\ [][NextConc]_vars

(***************************************************************************)
(* append_event when a backend call raises (connection lost, timeout)      *)
(***************************************************************************)
\* the most backend calls one append_event of EventInputs makes:
\* EXISTS, JSON.SET $, JSON.SET $.state.k, JSON.SET $.last_update_time, JSON.ARRAPPEND
MaxCalls == 5

\* one awaited backend call of a running append_event, r being what the call
\* does on run.db. run is [ok, faulted, db, fuel, state]: fuel is the number
\* of calls the backend still answers;
\* the call made when fuel is 0 raises and writes nothing, and an exception
\* ends append_event, so that no later call is made
Await(run, r) ==
    IF ~run.ok THEN run
    ELSE IF run.fuel = 0 THEN [run EXCEPT !.ok = FALSE, !.faulted = TRUE]
    ELSE [run EXCEPT !.ok = r.ok, !.db = r.db, !.fuel = @ - 1]

\* one iteration of the loop over state_delta.items()
RouteDeltaWithFault(run, app_name, user_id, key, delta_key, value) ==
    LET scope_key == IF StartsWith(delta_key, APP_PREFIX)
                     THEN AppStateKey(app_name)
                     ELSE UserStateKey(app_name, user_id)
        clean_key == IF StartsWith(delta_key, APP_PREFIX)
                     THEN RemovePrefix(delta_key, APP_PREFIX)
                     ELSE RemovePrefix(delta_key, USER_PREFIX)
        exists == Await(run, [ok |-> TRUE, db |-> run.db])
        init == IF exists.ok /\ ~Exists(exists.db, scope_key)
                THEN Await(exists, JsonSetRoot(exists.db, scope_key, [state |-> EmptyMap]))
                ELSE exists
        set == IF StartsWith(delta_key, APP_PREFIX) \/ StartsWith(delta_key, USER_PREFIX)
               THEN Await(init, JsonSetState(init.db, scope_key, clean_key, value))
               ELSE Await(run, JsonSetState(run.db, key, delta_key, value))
    IN  IF set.ok THEN [set EXCEPT !.state = MapSet(@, delta_key, value)] ELSE set

RECURSIVE ApplyDeltasWithFault(_, _, _, _, _)
ApplyDeltasWithFault(run, app_name, user_id, key, deltas) ==
    IF deltas = <<>> \/ ~run.ok THEN run
    ELSE ApplyDeltasWithFault(
             RouteDeltaWithFault(run, app_name, user_id, key,
                                 Head(deltas)[1], Head(deltas)[2]),
             app_name, user_id, key, Tail(deltas))

\* mutant: the writes made before the call that raised are undone
AppendEventWithRollback(d, session, event, fuel) ==
    LET key == SessionKey(session.app_name, session.user_id, session.id)
        s1  == [session EXCEPT !.last_update_time = event.timestamp,
                               !.events = Append(@, event)]
        run0 == [ok |-> TRUE, faulted |-> FALSE, db |-> d, fuel |-> fuel,
                 state |-> s1.state]
        run1 == ApplyDeltasWithFault(run0, session.app_name, session.user_id, key,
                                     event.actions.state_delta)
        run2 == Await(run1, JsonSetLastUpdate(run1.db, key, event.timestamp))
        run3 == Await(run2, JsonArrAppend(run2.db, key, EventDump(event)))
    IN  [ok |-> run3.ok, faulted |-> run3.faulted,
         db |-> IF run3.faulted THEN d ELSE run3.db,
         session |-> [s1 EXCEPT !.state = run3.state]]

\* mutant: the event is appended to the array before the deltas are written
AppendEventArrayFirst(d, session, event, fuel) ==
    LET key == SessionKey(session.app_name, session.user_id, session.id)
        s1  == [session EXCEPT !.last_update_time = event.timestamp,
                               !.events = Append(@, event)]
        run0 == [ok |-> TRUE, faulted |-> FALSE, db |-> d, fuel |-> fuel,
                 state |-> s1.state]
        run1 == Await(run0, JsonArrAppend(run0.db, key, EventDump(event)))
        run2 == Await(run1, JsonSetLastUpdate(run1.db, key, event.timestamp))
        run3 == ApplyDeltasWithFault(run2, session.app_name, session.user_id, key,
                                     event.actions.state_delta)
    IN  [ok |-> run3.ok, faulted |-> run3.faulted, db |-> run3.db,
         session |-> [s1 EXCEPT !.state = run3.state]]

\* append_event(session, event) when the backend answers fuel calls only:
\* [ok, faulted, db, session]
AppendEventWithFault(d, session, event, fuel) ==
    LET key == SessionKey(session.app_name, session.user_id, session.id)
        s1  == [session EXCEPT !.last_update_time = event.timestamp,
                               !.events = Append(@, event)]
        run0 == [ok |-> TRUE, faulted |-> FALSE, db |-> d, fuel |-> fuel,
                 state |-> s1.state]
        run1 == ApplyDeltasWithFault(run0, session.app_name, session.user_id, key,
                                     event.actions.state_delta)
        run2 == Await(run1, JsonSetLastUpdate(run1.db, key, event.timestamp))
        run3 == Await(run2, JsonArrAppend(run2.db, key, EventDump(event)))
    IN  [ok |-> run3.ok, faulted |-> run3.faulted, db |-> run3.db,
         session |-> [s1 EXCEPT !.state = run3.state]]

\* append_event(session, event) ended by an exception of its call number fuel + 1
InterruptedAppendOf(session, event, fuel) ==
    LET r == AppendEventWithFault(db, session, event, fuel)
    IN  /\ clock + nevents < MaxWrites
        /\ r.faulted
        /\ db' = r.db
        /\ held' = {r.session}
        /\ nevents' = nevents + 1
        /\ ret' = Ret("fault", FALSE, {event})
        /\ UNCHANGED <<clock, uuids, tasks, arrivals>>

InterruptedAppend ==
    /\ held /= {}
    /\ \E in \in EventInputs, fuel \in 0..(MaxCalls - 1) :
        InterruptedAppendOf(Some(held),
            Event(nevents + 1, "user", in.timestamp, in.state_delta, NoContent), fuel)

\* the caller runs append_event again with the session and the event of the
\* call that raised
RetryAppend ==
    /\ ret.op = "fault"
    /\ LET r == AppendEventResult(db, Some(held), Some(ret.val))
       IN  /\ db' = r.db
           /\ held' = {r.session}
           /\ ret' = Ret("append", r.ok, IF r.ok THEN ret.val ELSE {})
    /\ UNCHANGED <<clock, uuids, nevents, tasks, arrivals>>

NextFault ==
    \/ CreateSession
    \/ AppendEvent
    \/ InterruptedAppend
    \/ RetryAppend

\* the session store with backend calls that may raise, one caller at a time
SpecFault == Init /\ [][NextFault]_vars

(***************************************************************************)
(* add_session_to_memory calls running concurrently: one step per backend  *)
(* call                                                                    *)
(***************************************************************************)
\* the sessions handed to the concurrent calls of add_session_to_memory
ConcMemorySessions ==
    {MemorySession(U, S, <<EventAb>>),
     MemorySession(U, Uuid(1), <<EventNoContent, EventAThenB>>),
     MemorySession(U, Uuid(1), <<EventNoContent>>),
     MemorySession(V, S, <<EventAb1ba>>)}

\* a coroutine of add_session_to_memory(session): pc is the statement it is
\* about to run, exists the value of its local variable of that name
MemoryTask(session) ==
    [pc |-> "start", session |-> session, events_to_store |-> <<>>, exists |-> TRUE]

\* the memory document of user "u" is absent, or holds the session "p"
\* stored by an earlier call; NumTasks calls are about to start
InitMemConc ==
    \E prior \in {0, 1}, sessions \in [Tasks -> ConcMemorySessions] :
        /\ db = IF prior = 1
                THEN AddSessionToMemoryDb(EmptyMap, MemorySession(U, <<"p">>, <<EventAb>>))
                ELSE EmptyMap
        /\ clock = 0
        /\ uuids = 0
        /\ nevents = 0
        /\ held = {}
        /\ ret = Ret("init", TRUE, {})
        /\ tasks = [t \in Tasks |-> MemoryTask(sessions[t])]
        /\ arrivals = <<>>

\* the filter loop; if not events_to_store: return
FilterStep(t) ==
    /\ tasks[t].pc = "start"
    /\ LET events_to_store == EventsToStore(tasks[t].session.events)
       IN  /\ tasks' = [tasks EXCEPT ![t].events_to_store = events_to_store,
                                     ![t].pc = IF events_to_store = <<>>
                                               THEN "done" ELSE "exists"]
           /\ ret' = IF events_to_store = <<>> THEN Ret("add", TRUE, {}) ELSE ret
    /\ UNCHANGED <<db, clock, uuids, nevents, held, arrivals>>

\* exists = await self._redis.exists(user_key)
MemExistsStep(t) ==
    /\ tasks[t].pc = "exists"
    /\ LET exists == Exists(db, UserKey(tasks[t].session.app_name,
                                        tasks[t].session.user_id))
       IN  tasks' = [tasks EXCEPT ![t].exists = exists,
                                  ![t].pc = IF exists THEN "set" ELSE "init"]
    /\ UNCHANGED <<db, clock, uuids, nevents, held, ret, arrivals>>

\* await self._redis.json().set(user_key, "$", {})
MemInitStep(t) ==
    /\ tasks[t].pc = "init"
    /\ db' = JsonSetRoot(db, UserKey(tasks[t].session.app_name,
                                     tasks[t].session.user_id), EmptyMap).db
    /\ tasks' = [tasks EXCEPT ![t].pc = "set"]
    /\ UNCHANGED <<clock, uuids, nevents, held, ret, arrivals>>

\* await self._redis.json().set(user_key, f"$.{session.id}", events_to_store)
MemSetStep(t) ==
    /\ tasks[t].pc = "set"
    /\ LET r == JsonSetMember(db, UserKey(tasks[t].session.app_name,
                                          tasks[t].session.user_id),
                              tasks[t].session.id, tasks[t].events_to_store)
       IN  /\ db' = r.db
           /\ tasks' = [tasks EXCEPT ![t].pc = IF r.ok THEN "done" ELSE "failed"]
           /\ ret' = Ret("add", r.ok, {})
    /\ UNCHANGED <<clock, uuids, nevents, held, arrivals>>

NextMemConc ==
    \E t \in Tasks :
        \/ FilterStep(t)
        \/ MemExistsStep(t)
        \/ MemInitStep(t)
        \/ MemSetStep(t)

\* the event loop runs any coroutine that is ready, one backend call at a time
SpecMemConc == InitMemConc /\ [][NextMemConc]_vars

(***************************************************************************)
(* Identifiers that hold the ':' of the key format or the '*' of KEYS      *)
(***************************************************************************)
\* (app_name, user_id, session_id) of the callers: "a:u" is one app name,
\* "u:v" one user id, "v:s" one session id, "*" one user id
TenantInput(app_name, user_id, session_id) ==
    [app_name |-> app_name, user_id |-> user_id, session_id |-> session_id]

TenantInputs ==
    {TenantInput(A, U, S),
     TenantInput(A, V, S),
     TenantInput(<<"a", ":", "u">>, V, S),
     TenantInput(A, <<"u", ":", "v">>, S),
     TenantInput(A, U, <<"v", ":", "s">>),
     TenantInput(A, <<"*">>, S)}

TenantCreateSession ==
    \E in \in TenantInputs :
        CreateSessionOf(in.app_name, in.user_id, {}, {in.session_id})

TenantGetSession ==
    \E in \in TenantInputs :
        GetSessionOf(in.app_name, in.user_id, in.session_id, {})

TenantListSessions ==
    \E in \in TenantInputs : ListSessionsOf(in.app_name, in.user_id)

TenantDeleteSession ==
    \E in \in TenantInputs :
        DeleteSessionOf(in.app_name, in.user_id, in.session_id)

NextTenant ==
    \/ TenantCreateSession
    \/ TenantGetSession
    \/ TenantListSessions
    \/ TenantDeleteSession

\* the session store with such identifiers, one caller at a time
SpecTenant == Init /\ [][NextTenant]_vars

(***************************************************************************)
(* Properties                                                              *)
(***************************************************************************)
IsPrefixed(k) == StartsWith(k, APP_PREFIX) \/ StartsWith(k, USER_PREFIX)

\* a mapping restricted to its keys without app:/user: prefix
Unprefixed(m) == [k \in {x \in DOMAIN m : ~IsPrefixed(x)} |-> m[k]]

\* a state argument as a mapping (None is the empty mapping)
AsMap(state) == IF state = {} THEN EmptyMap ELSE Some(state)

\* an added key is app:k or user:k of the scope documents, with their value
FromScopes(d, app_name, user_id, k, v) ==
    \/ /\ StartsWith(k, APP_PREFIX)
       /\ AppStateKey(app_name) \in DOMAIN d
       /\ \E c \in DOMAIN d[AppStateKey(app_name)].state :
            k = APP_PREFIX \o c /\ v = d[AppStateKey(app_name)].state[c]
    \/ /\ StartsWith(k, USER_PREFIX)
       /\ UserStateKey(app_name, user_id) \in DOMAIN d
       /\ \E c \in DOMAIN d[UserStateKey(app_name, user_id)].state :
            k = USER_PREFIX \o c /\ v = d[UserStateKey(app_name, user_id)].state[c]

\* C1: create_session followed at once by get_session of the created session
\* (same app and user, the id the session was given) returns a session whose
\* keys without app:/user: prefix carry exactly the input state; every key
\* that is not of the input is app:k or user:k of a scope document.
C1_CreateThenGet ==
    [][\A in \in CreateInputs :
        (/\ ret'.op = "create"
         /\ CreateSessionOf(in.app_name, in.user_id, in.state, in.session_id)) =>
            LET id == Some(ret'.val).id
                g  == GetSessionResult(db', in.app_name, in.user_id, id, {})
            IN  /\ g /= {}
                /\ Unprefixed(Some(g).state) = Unprefixed(AsMap(in.state))
                /\ \A k \in DOMAIN Some(g).state \ DOMAIN AsMap(in.state) :
                     FromScopes(db', in.app_name, in.user_id, k, Some(g).state[k])]_vars

\* a session was created with a non-empty state while a scope document
\* already held a key, so that the returned state has both kinds of key
C1_Witness ==
    /\ ret.op = "create"
    /\ \E k \in DOMAIN Some(ret.val).state : ~IsPrefixed(k)
    /\ AppStateKey(A) \in DOMAIN db
    /\ \E k \in DOMAIN Some(ret.val).state : StartsWith(k, APP_PREFIX)

\* the session documents of the backend
SessionKeys(d) == {k \in DOMAIN d : Head(k) = "session"}

\* the events an unfiltered get_session shows for the session a caller holds
EventsOf(d, session) ==
    LET g == GetSessionResult(d, session.app_name, session.user_id, session.id, {})
    IN  IF g = {} THEN <<>> ELSE Some(g).events

HasSession(d, session) ==
    SessionKey(session.app_name, session.user_id, session.id) \in DOMAIN d

\* C2: a created session has no events, and every append_event on a stored
\* session succeeds and makes an unfiltered get_session return the events it
\* returned before followed by the appended event: after n appends on a fresh
\* session the list is the n appended events in call order.
C2_EventsInCallOrder ==
    [][/\ \A in \in CreateInputs :
            (/\ ret'.op = "create"
             /\ CreateSessionOf(in.app_name, in.user_id, in.state, in.session_id)) =>
                EventsOf(db', Some(ret'.val)) = <<>>
       /\ \A in \in EventInputs :
            LET event == Event(nevents + 1, "user", in.timestamp, in.state_delta, NoContent)
            IN  (/\ ret'.op = "append"
                 /\ held /= {}
                 /\ HasSession(db, Some(held))
                 /\ AppendEventOf(Some(held), event)) =>
                    /\ ret'.ok
                    /\ EventsOf(db', Some(held)) = Append(EventsOf(db, Some(held)), event)]_vars

\* two events were appended to one session, the second one with the smaller timestamp
C2_Witness ==
    /\ ret.op = "append" /\ ret.ok
    /\ Len(EventsOf(db, Some(held))) = 2
    /\ EventsOf(db, Some(held))[1].id = 1
    /\ EventsOf(db, Some(held))[2].id = 2
    /\ EventsOf(db, Some(held))[1].timestamp > EventsOf(db, Some(held))[2].timestamp

\* every session of the backend, as an unfiltered get_session returns it
StoredSessions(d) ==
    UNION {GetSessionResult(d, d[k].app_name, d[k].user_id, d[k].id, {}) :
             k \in SessionKeys(d)}

\* every session of an app shows every key of the app-scope document as app:k
AppStateVisible(d) ==
    \A s \in StoredSessions(d) :
        \A c \in DOMAIN GetState(d, AppStateKey(s.app_name)) :
            /\ APP_PREFIX \o c \in DOMAIN s.state
            /\ s.state[APP_PREFIX \o c] = GetState(d, AppStateKey(s.app_name))[c]

\* C3: an append_event with a delta app:c = v writes state.c = v of the app-scope
\* document and changes the state of no session document and no other document;
\* and whenever the backend changes (it is empty at first), every session of
\* the app, of any user, shows each key c of the app-scope document as app:c
\* with the stored value.
C3_AppScopeIsolation ==
    [][/\ db' /= db => AppStateVisible(db')
       /\ \A in \in EventInputs :
            LET event == Event(nevents + 1, "user", in.timestamp, in.state_delta, NoContent)
            IN  (/\ ret'.op = "append"
                 /\ held /= {}
                 /\ in.state_delta /= <<>>
                 /\ StartsWith(in.state_delta[1][1], APP_PREFIX)
                 /\ AppendEventOf(Some(held), event)) =>
                    LET app_key == AppStateKey(Some(held).app_name)
                        c == RemovePrefix(in.state_delta[1][1], APP_PREFIX)
                    IN  /\ app_key \in DOMAIN db'
                        /\ DOMAIN db' = DOMAIN db \cup {app_key}
                        /\ db'[app_key].state[c] = in.state_delta[1][2]
                        /\ \A k \in DOMAIN db \ {app_key} : db'[k].state = db[k].state
                        /\ \A s \in StoredSessions(db') :
                             s.app_name = Some(held).app_name =>
                                s.state[in.state_delta[1][1]] = in.state_delta[1][2]]_vars

\* an app: delta appended on a session of one user is shown by a session of
\* the other user, whose own document never held the key
C3_Witness ==
    /\ ret.op = "get" /\ ret.val /= {}
    /\ AppStateKey(A) \in DOMAIN db
    /\ X \in DOMAIN db[AppStateKey(A)].state
    /\ AppX \in DOMAIN Some(ret.val).state
    /\ \E k \in SessionKeys(db) :
         /\ db[k].user_id /= Some(ret.val).user_id
         /\ \E i \in 1..Len(db[k].events) :
              /\ db[k].events[i].actions.state_delta /= <<>>
              /\ db[k].events[i].actions.state_delta[1][1] = AppX
    /\ \A k \in SessionKeys(db) :
         db[k].user_id = Some(ret.val).user_id => AppX \notin DOMAIN db[k].state

\* the three scope stores: scope documents and the state of session documents
ScopeStores(d) == [k \in DOMAIN d |-> d[k].state]

\* the state an unfiltered get_session shows for the session a caller holds
StateOf(d, session) ==
    LET g == GetSessionResult(d, session.app_name, session.user_id, session.id, {})
    IN  IF g = {} THEN {} ELSE {Some(g).state}

\* C4: in every state, for the session the caller holds (any stored session
\* after a get_session, or a stale one) and every state delta, an append_event
\* with that delta called a second time leaves the app-scope, user-scope and
\* session-scope stores, the state get_session returns and the in-memory
\* state as the first call left them.
C4_DeltaIdempotent ==
    \A session \in held : \A in \in EventInputs :
        LET r1 == AppendEventResult(db, session,
                      Event(nevents + 1, "user", in.timestamp, in.state_delta, NoContent))
            r2 == AppendEventResult(r1.db, r1.session,
                      Event(nevents + 2, "user", in.timestamp, in.state_delta, NoContent))
        IN  /\ ScopeStores(r2.db) = ScopeStores(r1.db)
            /\ StateOf(r2.db, session) = StateOf(r1.db, session)
            /\ r2.session.state = r1.session.state

\* the same non-empty delta was appended twice in a row to one session
C4_Witness ==
    /\ ret.op = "append" /\ ret.ok
    /\ Len(EventsOf(db, Some(held))) = 2
    /\ EventsOf(db, Some(held))[1].actions.state_delta /= <<>>
    /\ EventsOf(db, Some(held))[1].actions.state_delta =
       EventsOf(db, Some(held))[2].actions.state_delta

\* window sizes and time lower bounds of the filter claims
FilterNumbers == {0, 1, 2}

\* exactly the last n elements, all of them when there are fewer than n
LastNExact(events, n) ==
    SubSeq(events, IF n >= Len(events) THEN 1 ELSE Len(events) - n + 1, Len(events))

\* the elements with timestamp >= t, in order
NotBefore(events, t) == LET Keep(e) == e.timestamp >= t IN SelectSeq(events, Keep)

FilteredEvents(d, session, n, t) ==
    Some(GetSessionResult(d, session.app_name, session.user_id, session.id,
                          {GetSessionConfig(n, t)})).events

\* C5: for every stored session, window size n and lower bound t, including
\* n = 0 and t = 0, get_session with the window alone returns exactly the last
\* n events, with the lower bound alone exactly the events with timestamp >= t,
\* and with both the events among the last n that have timestamp >= t.
C5_FiltersExact ==
    \A s \in StoredSessions(db) : \A n \in FilterNumbers, t \in FilterNumbers :
        /\ FilteredEvents(db, s, {n}, {}) = LastNExact(s.events, n)
        /\ FilteredEvents(db, s, {}, {t}) = NotBefore(s.events, t)
        /\ FilteredEvents(db, s, {n}, {t}) = NotBefore(LastNExact(s.events, n), t)

\* the same letter, whatever its case
SameLetter(c, d) == c = d \/ {c, d} \in {{"a", "A"}, {"b", "B"}}

Letters == {"a", "b", "A", "B"}

\* text[i..j] is an alphabetic word of text: letters only, with no letter
\* next to it on either side
IsWordAt(text, i, j) ==
    /\ \A k \in i..j : text[k] \in Letters
    /\ i = 1 \/ text[i - 1] \notin Letters
    /\ j = Len(text) \/ text[j + 1] \notin Letters

\* the two texts have an alphabetic word in common, case set aside
ShareWord(text, query) ==
    \E i \in 1..Len(text), k \in 1..Len(query) :
        \E j \in i..Len(text), l \in k..Len(query) :
            /\ IsWordAt(text, i, j)
            /\ IsWordAt(query, k, l)
            /\ j - i = l - k
            /\ \A n \in 0..(j - i) : SameLetter(text[i + n], query[k + n])

\* the stored event has a text part with a word of the query
EventMatches(event_dict, query) ==
    /\ event_dict.content /= {}
    /\ \E p \in 1..Len(Some(event_dict.content).parts) :
           LET text == Some(event_dict.content).parts[p].text
           IN  text /= {} /\ ShareWord(Some(text), query)

\* where the events of a user's memory corpus are stored: <<session id, index>>
StoredPositions(d, app_name, user_id) ==
    IF UserKey(app_name, user_id) \notin DOMAIN d THEN {}
    ELSE LET doc == d[UserKey(app_name, user_id)]
         IN  UNION {{<<sid, i>> : i \in 1..Len(doc[sid])} : sid \in DOMAIN doc}

StoredEvent(d, app_name, user_id, pos) == d[UserKey(app_name, user_id)][pos[1]][pos[2]]

\* C6: search_memory(app, user, query) returns exactly one entry for each
\* stored event of that user's memory document that has a text part sharing
\* an alphabetic word, case set aside, with the query, and no other entry
\* (none for the events of other users); a query without letters, and an
\* absent memory document, give an empty result.
C6_SearchMatchesWordSets ==
    [][\A app_name \in Apps, user_id \in Users, query \in Queries :
        (/\ ret'.op = "search"
         /\ SearchMemoryOf(app_name, user_id, query)) =>
            LET memories == ret'.val
                matching == {pos \in StoredPositions(db, app_name, user_id) :
                                EventMatches(StoredEvent(db, app_name, user_id, pos), query)}
                entry(pos) == MemoryEntry(StoredEvent(db, app_name, user_id, pos))
            IN  /\ \A e \in {entry(pos) : pos \in matching}
                              \cup {memories[i] : i \in 1..Len(memories)} :
                       Cardinality({i \in 1..Len(memories) : memories[i] = e})
                           = Cardinality({pos \in matching : entry(pos) = e})
                /\ Len(memories) = Cardinality(matching)
                /\ (\A i \in 1..Len(query) : query[i] \notin Letters) => memories = <<>>
                /\ UserKey(app_name, user_id) \notin DOMAIN db => memories = <<>>]_vars

\* a search has returned entries, fewer than the events stored for one user,
\* while both users have a memory document
C6_Witness ==
    /\ ret.op = "search"
    /\ Len(ret.val) >= 2
    /\ \E user_id \in Users :
           Len(ret.val) < Cardinality(StoredPositions(db, A, user_id))
    /\ \A user_id \in Users : UserKey(A, user_id) \in DOMAIN db

\* every append_event coroutine has returned
AllDone == tasks /= <<>> /\ \A t \in DOMAIN tasks : tasks[t].pc = "done"

\* the state_delta items of the event a coroutine appends
DeltasOf(t) ==
    {tasks[t].event.actions.state_delta[i] :
        i \in 1..Len(tasks[t].event.actions.state_delta)}

\* C7: when two concurrent append_event calls each carry a delta for a
\* different key of the same scope document, which did not exist when they
\* started, then once both have returned the scope document holds both keys
\* with the values written.
C7_ScopeInitRaceFree ==
    \A t1 \in DOMAIN tasks, t2 \in DOMAIN tasks :
        (t1 /= t2 /\ tasks[t1].pc = "done" /\ tasks[t2].pc = "done") =>
            \A delta1 \in DeltasOf(t1), delta2 \in DeltasOf(t2) :
                (/\ HasScopePrefix(delta1[1])
                 /\ HasScopePrefix(delta2[1])
                 /\ delta1[1] /= delta2[1]
                 /\ ScopeDocKey(Some(held), delta1[1]) = ScopeDocKey(Some(held), delta2[1])) =>
                    LET key == ScopeDocKey(Some(held), delta1[1])
                    IN  /\ key \in DOMAIN db
                        /\ \A delta \in {delta1, delta2} :
                               /\ CleanKey(delta[1]) \in DOMAIN db[key].state
                               /\ db[key].state[CleanKey(delta[1])] = delta[2]

\* the events the session object held before the concurrent calls started
PriorEvents ==
    SubSeq(Some(held).events, 1, Len(Some(held).events) - Cardinality(DOMAIN tasks))

\* C8: once all the concurrent append_event calls on one stored session have
\* returned, the stored events array is the events it held before, followed by
\* the appended events in the order their JSON.ARRAPPEND calls reached the
\* backend, and every appended event is in it exactly once.
C8_ConcurrentAppendsKeepAll ==
    AllDone =>
        LET stored == db[ConcKey].events
        IN  /\ Len(arrivals) = Cardinality(DOMAIN tasks)
            /\ stored = [i \in 1..Len(PriorEvents) |-> EventDump(PriorEvents[i])]
                            \o [i \in 1..Len(arrivals) |-> EventDump(arrivals[i])]
            /\ \A t \in DOMAIN tasks :
                   Cardinality({i \in 1..Len(stored) :
                                   stored[i] = EventDump(tasks[t].event)}) = 1

\* all calls have returned on a session that held an event before, and the
\* array-append calls arrived in another order than the calls were started
C8_Witness ==
    /\ AllDone
    /\ Len(PriorEvents) = 1
    /\ PriorEvents \o arrivals /= Some(held).events

\* C9: create_session with a supplied id whose session document exists fails
\* and leaves that document as it was.
C9_DuplicateRejected ==
    [][\A in \in CreateInputs :
        (/\ in.session_id /= {}
         /\ SessionKey(in.app_name, in.user_id, Some(in.session_id)) \in DOMAIN db
         /\ CreateSessionOf(in.app_name, in.user_id, in.state, in.session_id)) =>
            LET key == SessionKey(in.app_name, in.user_id, Some(in.session_id))
            IN  /\ ~ret'.ok
                /\ db'[key] = db[key]]_vars

\* C10: delete_session of a session that has no document completes without
\* error and changes no document, and none of the sessions list_sessions
\* returns for that app and user afterwards has that id.
C10_DeleteAbsent ==
    [][\A app_name \in Apps, user_id \in Users, session_id \in SessionIds :
        (/\ ret'.op = "delete"
         /\ SessionKey(app_name, user_id, session_id) \notin DOMAIN db
         /\ DeleteSessionOf(app_name, user_id, session_id)) =>
            /\ ret'.ok
            /\ db' = db
            /\ \A key \in Keys(db', SessionKey(app_name, user_id, <<"*">>)) :
                   ListedSession(db', app_name, user_id, key).id /= session_id]_vars

\* a delete_session has just completed and no document was ever removed
\* (as many session documents as create_session calls), so it was the delete
\* of an absent session, made while sessions are stored
C10_Witness ==
    /\ ret.op = "delete"
    /\ clock >= 1
    /\ Cardinality(SessionKeys(db)) = clock

\* the state an unfiltered get_session returns for the session stored at key
EffectiveState(d, key) ==
    Some(GetSessionResult(d, d[key].app_name, d[key].user_id, d[key].id, {})).state

\* C11: for every stored session, the state get_session returns holds every
\* key of the session document's state with the document's value, every key c
\* of the app-scope document as app:c and every key c of the user-scope
\* document as user:c with their values, and every returned key comes from
\* the scope its prefix names: app:c from the app-scope document, user:c from
\* the user-scope document, any other key from the session document.
C11_CollisionFreeUnion ==
    \A key \in SessionKeys(db) :
        LET doc == db[key]
            app == GetState(db, AppStateKey(doc.app_name))
            user == GetState(db, UserStateKey(doc.app_name, doc.user_id))
            g == EffectiveState(db, key)
        IN  /\ \A k \in DOMAIN doc.state : k \in DOMAIN g /\ g[k] = doc.state[k]
            /\ \A c \in DOMAIN app :
                   APP_PREFIX \o c \in DOMAIN g /\ g[APP_PREFIX \o c] = app[c]
            /\ \A c \in DOMAIN user :
                   USER_PREFIX \o c \in DOMAIN g /\ g[USER_PREFIX \o c] = user[c]
            /\ \A k \in DOMAIN g :
                   IF StartsWith(k, APP_PREFIX)
                   THEN RemovePrefix(k, APP_PREFIX) \in DOMAIN app
                   ELSE IF StartsWith(k, USER_PREFIX)
                   THEN RemovePrefix(k, USER_PREFIX) \in DOMAIN user
                   ELSE k \in DOMAIN doc.state

\* the event carries content with at least one part
ContentBearing(event) == event.content /= {} /\ Len(Some(event.content).parts) > 0

\* C12: add_session_to_memory of a session with at least one content-bearing
\* event leaves under the session's id, in the user's memory document, exactly
\* the content-bearing events of the session in order, whatever was stored
\* there before; the slices of the other session ids and the other documents
\* are unchanged; and adding the same session again changes nothing.
C12_AddIsFullReplace ==
    [][\A session \in MemorySessions :
        (/\ ret'.op = "add"
         /\ \E i \in 1..Len(session.events) : ContentBearing(session.events[i])
         /\ AddSessionToMemoryOf(session)) =>
            LET key == UserKey(session.app_name, session.user_id)
                bearing == SelectSeq(session.events, ContentBearing)
                before == IF key \in DOMAIN db THEN db[key] ELSE EmptyMap
            IN  /\ key \in DOMAIN db'
                /\ DOMAIN db' = DOMAIN db \cup {key}
                /\ DOMAIN db'[key] = DOMAIN before \cup {session.id}
                /\ db'[key][session.id] = [i \in 1..Len(bearing) |-> EventDump(bearing[i])]
                /\ \A sid \in DOMAIN before \ {session.id} : db'[key][sid] = before[sid]
                /\ \A k \in DOMAIN db \ {key} : db'[k] = db[k]
                /\ AddSessionToMemoryDb(db', session) = db']_vars

\* a session was added, the user's memory document holds two sessions with
\* two events each (every session handed over with three events has one
\* without content or parts), and the other user has a document too
C12_Witness ==
    /\ ret.op = "add"
    /\ UserKey(A, V) \in DOMAIN db
    /\ UserKey(A, U) \in DOMAIN db
    /\ DOMAIN db[UserKey(A, U)] = {S, Uuid(1)}
    /\ Len(db[UserKey(A, U)][S]) = 2
    /\ Len(db[UserKey(A, U)][Uuid(1)]) = 2

\* the state list_sessions returns for the session stored at key
ListedState(d, key) == ListedSession(d, d[key].app_name, d[key].user_id, key).state

\* the value a state has at a key, {} when it has none
ValueAt(state, k) == IF k \in DOMAIN state THEN {state[k]} ELSE {}

\* the sessions stored at another key show at key k, through get_session
\* and list_sessions, what they showed before the step
OthersKeep(key, k) ==
    \A other \in SessionKeys(db) \ {key} :
        /\ other \in DOMAIN db'
        /\ ValueAt(EffectiveState(db', other), k) = ValueAt(EffectiveState(db, other), k)
        /\ ValueAt(ListedState(db', other), k) = ValueAt(ListedState(db, other), k)

\* C13: a key without prefix of the initial state of create_session, or of
\* the state delta of an append_event on a session, changes nothing at that
\* key in the state get_session and list_sessions return for any other stored
\* session, of the same user or of another: it does not appear there.
C13_SessionStateDoesNotLeak ==
    [][/\ \A in \in CreateInputs :
            (/\ ret'.op = "create"
             /\ CreateSessionOf(in.app_name, in.user_id, in.state, in.session_id)) =>
                \A k \in DOMAIN AsMap(in.state) :
                    ~IsPrefixed(k) =>
                        OthersKeep(SessionKey(in.app_name, in.user_id, Some(ret'.val).id), k)
       /\ \A in \in EventInputs :
            LET event == Event(nevents + 1, "user", in.timestamp, in.state_delta, NoContent)
            IN  (/\ ret'.op = "append"
                 /\ held /= {}
                 /\ AppendEventOf(Some(held), event)) =>
                    \A i \in 1..Len(in.state_delta) :
                        ~IsPrefixed(in.state_delta[i][1]) =>
                            OthersKeep(SessionKey(Some(held).app_name, Some(held).user_id,
                                                  Some(held).id),
                                       in.state_delta[i][1])]_vars

\* a delta without prefix was appended and stored on one session, which
\* shows it, and a session of the other user does not show the key
C13_Witness ==
    /\ ret.op = "append" /\ ret.ok
    /\ Some(ret.val).actions.state_delta = << <<X, 2>> >>
    /\ HasSession(db, Some(held))
    /\ EffectiveState(db, SessionKey(A, Some(held).user_id, Some(held).id))[X] = 2
    /\ \E other \in SessionKeys(db) :
         /\ db[other].user_id /= Some(held).user_id
         /\ X \notin DOMAIN EffectiveState(db, other)

\* an app no session is stored for
OtherApp == <<"b">>

\* the state create_session would return for a new session without state
FreshState(d, app_name, user_id) ==
    CreatedSession(d, app_name, user_id, S, {}, 0).state

\* C14: an append_event on a session with a delta user:c = v makes every
\* stored session of the same app and user show user:c = v through
\* get_session and list_sessions; every session of another user shows at
\* user:c what it showed before, and a session of another app, for the same
\* user or another, does not show user:c.
C14_UserScopeSharedPerUser ==
    [][\A in \in EventInputs :
        LET event == Event(nevents + 1, "user", in.timestamp, in.state_delta, NoContent)
        IN  (/\ ret'.op = "append"
             /\ held /= {}
             /\ in.state_delta /= <<>>
             /\ StartsWith(in.state_delta[1][1], USER_PREFIX)
             /\ AppendEventOf(Some(held), event)) =>
                LET k == in.state_delta[1][1]
                    v == in.state_delta[1][2]
                IN  /\ \A key \in SessionKeys(db') :
                         IF /\ db'[key].app_name = Some(held).app_name
                            /\ db'[key].user_id = Some(held).user_id
                         THEN /\ ValueAt(EffectiveState(db', key), k) = {v}
                              /\ ValueAt(ListedState(db', key), k) = {v}
                         ELSE /\ ValueAt(EffectiveState(db', key), k)
                                    = ValueAt(EffectiveState(db, key), k)
                              /\ ValueAt(ListedState(db', key), k)
                                    = ValueAt(ListedState(db, key), k)
                    /\ \A user_id \in Users :
                         /\ k \notin DOMAIN FreshState(db', OtherApp, user_id)
                         /\ user_id /= Some(held).user_id =>
                              ValueAt(FreshState(db', Some(held).app_name, user_id), k)
                                  = ValueAt(FreshState(db, Some(held).app_name, user_id), k)]_vars

\* a user: delta was appended on one session; a second session of the same
\* user, whose document never held the key, shows it
C14_Witness ==
    /\ ret.op = "append" /\ ret.ok
    /\ Some(ret.val).actions.state_delta = << <<UserX, 1>> >>
    /\ \E key \in SessionKeys(db) :
         /\ db[key].user_id = Some(held).user_id
         /\ db[key].id /= Some(held).id
         /\ UserX \notin DOMAIN db[key].state
         /\ ValueAt(EffectiveState(db, key), UserX) = {1}

\* the coordinates <<app, user, id>> written in the stored session documents
Coordinates(d) == {<<d[k].app_name, d[k].user_id, d[k].id>> : k \in SessionKeys(d)}

\* what list_sessions returns is what is stored: for every app and user, one
\* session per stored session document of that app and user and no other,
\* each with no events and with the state get_session returns for it
ListIsStored ==
    /\ \A k \in SessionKeys(db) : k = SessionKey(db[k].app_name, db[k].user_id, db[k].id)
    /\ \A app_name \in Apps, user_id \in Users :
         LET listed == ListedSessions(db, app_name, user_id)
         IN  /\ {<<s.app_name, s.user_id, s.id>> : s \in listed}
                    = {c \in Coordinates(db) : c[1] = app_name /\ c[2] = user_id}
             /\ Cardinality(listed)
                    = Cardinality({c \in Coordinates(db) : c[1] = app_name /\ c[2] = user_id})
             /\ \A s \in listed :
                    /\ s.events = <<>>
                    /\ s.state = EffectiveState(db, SessionKey(app_name, user_id, s.id))

\* the stored coordinates follow the calls: create_session adds the created
\* session's, delete_session removes the deleted one's, nothing else changes them
StoredFollowsCalls ==
    /\ \A in \in CreateInputs :
         (/\ ret'.op = "create"
          /\ CreateSessionOf(in.app_name, in.user_id, in.state, in.session_id)) =>
             Coordinates(db') =
                 Coordinates(db) \cup {<<in.app_name, in.user_id, Some(ret'.val).id>>}
    /\ ret'.op = "delete" =>
         LET before == Coordinates(db)
             after == Coordinates(db')
         IN  \A app_name \in Apps, user_id \in Users, session_id \in SessionIds :
                 DeleteSessionOf(app_name, user_id, session_id) =>
                     after = before \ {<<app_name, user_id, session_id>>}
    /\ ret'.op \notin {"create", "delete"} => Coordinates(db') = Coordinates(db)
    /\ \A app_name \in Apps, user_id \in Users :
         (/\ ret'.op = "list"
          /\ ListSessionsOf(app_name, user_id)) =>
             /\ {ret'.val[i].id : i \in 1..Len(ret'.val)}
                    = {c[3] : c \in {c \in Coordinates(db) : c[1] = app_name /\ c[2] = user_id}}
             /\ \A i, j \in 1..Len(ret'.val) : ret'.val[i].id = ret'.val[j].id => i = j

\* C15: after any sequence of create_session, append_event and delete_session
\* calls, list_sessions(app, user) returns exactly the sessions created under
\* that app and user and not deleted since: the stored sessions are those
\* created and not deleted, and the list is one session per stored session of
\* the app and user, with no events and with the merged state.
C15_ListIsCreatedNotDeleted == []ListIsStored /\ [][StoredFollowsCalls]_vars

\* three sessions were created, two are stored, and list_sessions returned
\* one of them: the other one belongs to the other user
C15_Witness ==
    /\ ret.op = "list"
    /\ Len(ret.val) = 1
    /\ clock = 3
    /\ Cardinality(SessionKeys(db)) = 2

\* the two filters of get_session give the same list in either order
FiltersCommuteOn(events) ==
    \A n \in FilterNumbers, t \in FilterNumbers :
        EventsAfter(RecentEvents(events, {n}), {t})
            = RecentEvents(EventsAfter(events, {t}), {n})

\* the timestamps never decrease along the sequence
SortedByTimestamp(events) ==
    \A i \in 1..(Len(events) - 1) : events[i].timestamp <= events[i + 1].timestamp

\* C16: for every stored event sequence whose timestamps never decrease, every
\* window N and every lower bound T, the last-N window followed by the
\* timestamp >= T filter gives the same list as the filter followed by the
\* window.
C16_FiltersCommuteWhenSorted ==
    \A s \in StoredSessions(db) :
        SortedByTimestamp(s.events) => FiltersCommuteOn(s.events)

\* C16 as stated: the same for every stored event sequence, sorted or not.
C16_FiltersCommute ==
    \A s \in StoredSessions(db) : FiltersCommuteOn(s.events)

\* a session stores two events with increasing timestamps, so that a window
\* of 1 and a lower bound of 2 both cut the list
C16_Witness ==
    \E s \in StoredSessions(db) :
        /\ Len(s.events) = 2
        /\ s.events[1].timestamp = 1
        /\ s.events[2].timestamp = 2

\* C17: when a backend call of append_event on a stored session raises, the
\* event is not in the stored events array and what the earlier calls wrote
\* stays (every state entry then stored is the one stored before or the one
\* an uninterrupted call stores, and when the call that raised is the last
\* one, the array append, all the state deltas and last_update_time are
\* stored while the event is not: no rollback); and
\* append_event run again with the same session and event succeeds and leaves
\* the backend as one uninterrupted append_event would have.
C17_PartialFailureThenRetry ==
    [][\A in \in EventInputs, fuel \in 0..(MaxCalls - 1) :
        LET event == Event(nevents + 1, "user", in.timestamp, in.state_delta, NoContent)
        IN  (/\ ret'.op = "fault"
             /\ held /= {}
             /\ InterruptedAppendOf(Some(held), event, fuel)) =>
                LET key == SessionKey(Some(held).app_name, Some(held).user_id, Some(held).id)
                    whole == AppendEventResult(db, Some(held), event)
                    rerun == AppendEventResult(db', Some(held'), event)
                IN  /\ whole.ok
                    /\ db'[key].events = db[key].events
                    /\ DOMAIN db \subseteq DOMAIN db'
                    /\ \A k \in DOMAIN db' : \A c \in DOMAIN db'[k].state :
                           \/ db'[k].state[c] = whole.db[k].state[c]
                           \/ /\ k \in DOMAIN db
                              /\ c \in DOMAIN db[k].state
                              /\ db'[k].state[c] = db[k].state[c]
                    /\ AppendEventWithFault(db, Some(held), event, fuel + 1).ok =>
                           /\ ScopeStores(db') = ScopeStores(whole.db)
                           /\ db'[key].last_update_time = event.timestamp
                    /\ rerun.ok
                    /\ rerun.db = whole.db]_vars

\* an append_event with an app: delta raised and was run again: the session
\* object holds the event twice, the stored array once, and the app-scope
\* document holds the delta
C17_Witness ==
    /\ ret.op = "append" /\ ret.ok
    /\ Some(ret.val).actions.state_delta = << <<AppX, 1>> >>
    /\ Len(Some(held).events) = 2
    /\ Some(held).events[1] = Some(held).events[2]
    /\ EventsOf(db, Some(held)) = <<Some(ret.val)>>
    /\ GetState(db, AppStateKey(A))[X] = 1

\* the sequence p is the beginning of the sequence q
IsPrefixOf(p, q) == Len(p) <= Len(q) /\ SubSeq(q, 1, Len(p)) = p

\* C18: on every step that leaves a session document in place (it is stored
\* before and after the step), the events array it held before is a prefix of
\* the one it holds after: no stored event is removed, reordered or altered,
\* by any operation, create_session on the same coordinates included.
C18_EventLogAppendOnly ==
    [][\A key \in SessionKeys(db) \cap SessionKeys(db') :
          IsPrefixOf(db[key].events, db'[key].events)]_vars

\* C19: over create_session and append_event calls on one session, with any
\* event timestamps, last_update_time never decreases: neither the one stored
\* in the session document nor the one of the session object the caller holds.
C19_LastUpdateMonotonic ==
    [][/\ \A key \in SessionKeys(db) \cap SessionKeys(db') :
            db[key].last_update_time <= db'[key].last_update_time
       /\ \A s \in held, t \in held' :
            (s.app_name = t.app_name /\ s.user_id = t.user_id /\ s.id = t.id) =>
                s.last_update_time <= t.last_update_time]_vars

\* a session that has no document is absent for get_session and is not in
\* what list_sessions returns
AbsentIsAbsent ==
    \A app_name \in Apps, user_id \in Users :
        LET listed == {s.id : s \in ListedSessions(db, app_name, user_id)}
        IN  \A session_id \in SessionIds :
                SessionKey(app_name, user_id, session_id) \notin DOMAIN db =>
                    /\ GetSessionResult(db, app_name, user_id, session_id, {}) = {}
                    /\ session_id \notin listed

\* delete_session leaves no document at the key, and a session document that
\* was not stored is stored after a step only when the step is the
\* create_session of that session: append_event makes none
OnlyCreateStores ==
    /\ ret'.op = "delete" =>
         \A app_name \in Apps, user_id \in Users, session_id \in SessionIds :
             DeleteSessionOf(app_name, user_id, session_id) =>
                 SessionKey(app_name, user_id, session_id) \notin DOMAIN db'
    /\ \A key \in SessionKeys(db') \ SessionKeys(db) :
         /\ ret'.op = "create"
         /\ key = SessionKey(Some(ret'.val).app_name, Some(ret'.val).user_id,
                             Some(ret'.val).id)

\* C20: after delete_session(app, user, id) and until the next create_session
\* with the same coordinates, the session has no document, get_session
\* returns None and list_sessions has no session of that id, whatever is
\* called in between: append_event with the session object of the deleted
\* session creates no session document, not even a partial one.
C20_DeletedStaysAbsent == []AbsentIsAbsent /\ [][OnlyCreateStores]_vars

\* append_event was called with the session object of a deleted session and
\* an unprefixed delta: it raised, and the session has no document
C20_Witness ==
    /\ ret.op = "append" /\ ~ret.ok
    /\ held /= {}
    /\ ~HasSession(db, Some(held))
    /\ Len(Some(held).events) >= 1
    /\ Some(held).events[Len(Some(held).events)].actions.state_delta = << <<X, 2>> >>

\* the calls of add_session_to_memory that store something: their session
\* has an event with content and parts
Ingesting == {t \in DOMAIN tasks : EventsToStore(tasks[t].session.events) /= <<>>}

\* the memory document was absent when the calls started: one of them was
\* answered that the key does not exist
StartedAbsent(user_id) ==
    \E t \in Ingesting : tasks[t].session.user_id = user_id /\ ~tasks[t].exists

\* C21: when add_session_to_memory runs concurrently for different sessions
\* of one app and user, each with content-bearing events, and the memory
\* document was absent at the start, then once every call has returned the
\* memory document holds the slice of each of these sessions, in every
\* interleaving of the backend calls.
C21_ConcurrentIngestionKeepsAll ==
    AllDone =>
        \A t \in Ingesting, u \in Ingesting :
            (/\ tasks[t].session.app_name = tasks[u].session.app_name
             /\ tasks[t].session.user_id = tasks[u].session.user_id
             /\ tasks[t].session.id /= tasks[u].session.id
             /\ StartedAbsent(tasks[t].session.user_id)) =>
                LET user_key == UserKey(tasks[t].session.app_name, tasks[t].session.user_id)
                IN  /\ user_key \in DOMAIN db
                    /\ tasks[t].session.id \in DOMAIN db[user_key]
                    /\ db[user_key][tasks[t].session.id] = tasks[t].events_to_store

\* the delta (delta_key, value) is written where append_event on the session
\* stored at key routes it: the app or user scope document, or the session
\* document itself
DeltaWritten(d, key, delta) ==
    LET doc_key == IF HasScopePrefix(delta[1]) THEN ScopeDocKey(d[key], delta[1]) ELSE key
        k == IF HasScopePrefix(delta[1]) THEN CleanKey(delta[1]) ELSE delta[1]
    IN  /\ doc_key \in DOMAIN d
        /\ k \in DOMAIN d[doc_key].state
        /\ d[doc_key].state[k] = delta[2]

\* C22: on every step that makes a stored events array longer, calls of
\* append_event ended by an exception included, the event now last in the
\* array has every item of its state_delta written where it is routed, and
\* last_update_time is its timestamp: the deltas and last_update_time are
\* written before the event is appended, so that no state holds an event one
\* of whose deltas was never written.
C22_DeltasBeforeEvent ==
    [][\A key \in SessionKeys(db') :
        LET old == IF key \in DOMAIN db THEN db[key].events ELSE <<>>
            new == db'[key].events
        IN  Len(new) > Len(old) =>
                LET e_dict == new[Len(new)]
                IN  /\ db'[key].last_update_time = e_dict.timestamp
                    /\ \A i \in 1..Len(e_dict.actions.state_delta) :
                           DeltaWritten(db', key, e_dict.actions.state_delta[i])]_vars

\* append_event with the delta x = 2 raised at its last call: the delta is
\* in the session document and the event is not in its array
C22_Witness ==
    /\ ret.op = "fault"
    /\ held /= {}
    /\ HasSession(db, Some(held))
    /\ Some(ret.val).actions.state_delta = << <<X, 2>> >>
    /\ DeltaWritten(db, SessionKey(Some(held).app_name, Some(held).user_id, Some(held).id),
                    <<X, 2>>)
    /\ db[SessionKey(Some(held).app_name, Some(held).user_id, Some(held).id)].last_update_time = 2
    /\ EventsOf(db, Some(held)) = <<>>

\* no append_event is between its first statement and its return
NoneInProgress ==
    tasks /= <<>> /\ \A t \in DOMAIN tasks : tasks[t].pc \in {"start", "done", "failed"}

\* C23: whenever no append_event is in progress on a session whose stored
\* events array is not empty, the stored last_update_time is the timestamp
\* of the last event of the array, in every interleaving of concurrent
\* append_event calls on the session.
C23_LastUpdateIsLastEvent ==
    (NoneInProgress /\ db[ConcKey].events /= <<>>) =>
        db[ConcKey].last_update_time =
            db[ConcKey].events[Len(db[ConcKey].events)].timestamp

\* C24: two different (app, user, session id) never address one session
\* document, and list_sessions(app, user) reads no document of another app
\* or user, identifiers holding ':' or '*' included: the session
\* get_session(app, user, id) returns has these three coordinates, every
\* session list_sessions(app, user) returns has this app_name and user_id,
\* and create_session and delete_session leave the documents of every other
\* (app, user, session id) as they are.
C24_TenantKeyIsolation ==
    [][\A in \in TenantInputs :
        /\ (ret'.op = "get"
            /\ GetSessionOf(in.app_name, in.user_id, in.session_id, {})) =>
               \A s \in ret'.val :
                   /\ s.app_name = in.app_name
                   /\ s.user_id = in.user_id
                   /\ s.id = in.session_id
        /\ (ret'.op = "list" /\ ListSessionsOf(in.app_name, in.user_id)) =>
               \A i \in 1..Len(ret'.val) :
                   /\ ret'.val[i].app_name = in.app_name
                   /\ ret'.val[i].user_id = in.user_id
        /\ (\/ ret'.op = "create"
               /\ CreateSessionOf(in.app_name, in.user_id, {}, {in.session_id})
            \/ ret'.op = "delete"
               /\ DeleteSessionOf(in.app_name, in.user_id, in.session_id)) =>
               \A key \in SessionKeys(db) :
                   (\/ db[key].app_name /= in.app_name
                    \/ db[key].user_id /= in.user_id
                    \/ db[key].id /= in.session_id) =>
                       (key \in DOMAIN db' /\ db'[key] = db[key])]_vars

====
